---- MODULE Spec2Model ----
(***************************************************************************)
(* ecs_service: reconciliation of one ECS service (cloud/amazon/           *)
(* ecs_service.py).  A run of main() is split at its collaborator calls   *)
(* (describe_services, describe_task_definition, create_service,          *)
(* update_service, delete_service, one waiter poll), so that the service  *)
(* can change between two calls of a run.                                 *)
(***************************************************************************)
EXTENDS Integers, Sequences, FiniteSets, TLC

\* Bounds of the model.
MaxCount == 1        \* desired_count ranges over 0..MaxCount
MaxAttempts == 2     \* polls a waiter makes before it gives up

Runs == {1, 2}

\* Python None, for a str-typed and for an int-typed value.
None == "None"
NoneInt == -1

ClusterName == "default"
ServiceName == "svc"

-----------------------------------------------------------------------------
(* Python dicts: functions over the set of keys that were inserted.        *)

EmptyDict == [k \in {} |-> TRUE]

Put(d, k, v) == [x \in (DOMAIN d) \cup {k} |-> IF x = k THEN v ELSE d[x]]

PutIf(cond, d, k, v) == IF cond THEN Put(d, k, v) ELSE d

\* Truthiness of a str-typed and of an int-typed value ("if x:").
TruthyStr(s) == s # None /\ s # ""

TruthyInt(n) == n # NoneInt /\ n # 0

-----------------------------------------------------------------------------
(* The collaborator: task definitions and the one service.                 *)

TaskDefNames == {"td:1", "td", "td:0"}

\* What ecs.describe_task_definition answers: the family alone resolves to
\* its latest revision, and td:0 has been deregistered.
TaskDefinitionOf(name) ==
    CASE name = "td:1" -> [taskDefinitionArn |-> "arn:td:1", status |-> "ACTIVE"]
      [] name = "td"   -> [taskDefinitionArn |-> "arn:td:2", status |-> "ACTIVE"]
      [] OTHER         -> [taskDefinitionArn |-> "arn:td:0", status |-> "INACTIVE"]

\* describe_services found no service (response['services'] is empty).
NoneSvc == [status |-> "MISSING"]

\* A service as ecs.describe_services returns it.  pendingRollout abstracts
\* "length(deployments) # 1 or runningCount # desiredCount".
Service(status, count, arn, minp, maxp, lbs, role, pending) ==
    [status |-> status, desiredCount |-> count, taskDefinition |-> arn,
     deploymentConfiguration |->
        [minimumHealthyPercent |-> minp, maximumPercent |-> maxp],
     loadBalancers |-> lbs, roleArn |-> role, pendingRollout |-> pending,
     createdAt |-> "datetime(t0)"]

\* The binding create_service attaches when all four parameters are given.
BoundLB ==
    <<[loadBalancerName |-> "elb", containerName |-> "web", containerPort |-> 80]>>

\* The services a run may find when it starts.
InitialServices ==
    {NoneSvc}
    \cup {Service("ACTIVE", n, arn, dc[1], dc[2], <<>>, None, FALSE) :
            n \in 0..MaxCount, arn \in {"arn:td:1", "arn:td:2"},
            dc \in {<<0, 200>>, <<50, 150>>, <<100, 200>>}}
    \cup {Service(st, n, "arn:td:1", 100, 200, BoundLB, "ecsServiceRole", FALSE) :
            st \in {"ACTIVE", "DRAINING", "INACTIVE"}, n \in 0..MaxCount}

\* Effect of ecs.create_service(**args) on the collaborator.
EcsCreate(args) ==
    LET dc == IF "deploymentConfiguration" \in DOMAIN args
              THEN args["deploymentConfiguration"] ELSE EmptyDict
    IN  Service("ACTIVE", args["desiredCount"],
                TaskDefinitionOf(args["taskDefinition"]).taskDefinitionArn,
                IF "minimumHealthyPercent" \in DOMAIN dc
                THEN dc["minimumHealthyPercent"] ELSE 100,
                IF "maximumPercent" \in DOMAIN dc
                THEN dc["maximumPercent"] ELSE 200,
                IF "loadBalancers" \in DOMAIN args
                THEN args["loadBalancers"] ELSE <<>>,
                IF "role" \in DOMAIN args THEN args["role"] ELSE None,
                args["desiredCount"] > 0)

\* Effect of ecs.update_service(**args) on an ACTIVE service s.
EcsUpdate(s, args) ==
    LET dc == IF "deploymentConfiguration" \in DOMAIN args
              THEN args["deploymentConfiguration"] ELSE EmptyDict
        arn == IF "taskDefinition" \in DOMAIN args
               THEN TaskDefinitionOf(args["taskDefinition"]).taskDefinitionArn
               ELSE s.taskDefinition
        cnt == IF "desiredCount" \in DOMAIN args
               THEN args["desiredCount"] ELSE s.desiredCount
    IN  [s EXCEPT
           !.desiredCount = cnt,
           !.taskDefinition = arn,
           !.deploymentConfiguration =
              [minimumHealthyPercent |->
                  IF "minimumHealthyPercent" \in DOMAIN dc
                  THEN dc["minimumHealthyPercent"]
                  ELSE s.deploymentConfiguration.minimumHealthyPercent,
               maximumPercent |->
                  IF "maximumPercent" \in DOMAIN dc
                  THEN dc["maximumPercent"]
                  ELSE s.deploymentConfiguration.maximumPercent],
           !.pendingRollout =
              s.pendingRollout \/ arn # s.taskDefinition \/ cnt # s.desiredCount]

\* Effect of ecs.delete_service on an ACTIVE service s: it starts draining.
EcsDelete(s) == [s EXCEPT !.status = "DRAINING"]

-----------------------------------------------------------------------------
(* The module's parameters (argument_spec of main).                        *)

Params(state, td, count, lb, cname, cport, role, minp, maxp, stable, inactive) ==
    [state |-> state, task_definition |-> td, desired_count |-> count,
     load_balancer |-> lb, container_name |-> cname, container_port |-> cport,
     role |-> role, min_healthy_percent |-> minp, max_percent |-> maxp,
     wait_until_stable |-> stable, wait_until_inactive |-> inactive]

\* The four load-balancer parameters, each given or not.
LBChoices ==
    {<<lb, cname, cport, role>> :
        lb \in {None, "elb"}, cname \in {None, "web"},
        cport \in {NoneInt, 80}, role \in {None, "ecsServiceRole"}}

\* state=present with the required parameters, and no binding or a whole one.
PresentParams ==
    {Params("present", td, n, None, None, NoneInt, None, mn, mx, w, TRUE) :
        td \in TaskDefNames, n \in 0..MaxCount,
        mn \in {NoneInt, 0, 50}, mx \in {NoneInt, 0, 150}, w \in BOOLEAN}
    \cup {Params("present", td, n, "elb", "web", 80, "ecsServiceRole",
                 mn, NoneInt, w, TRUE) :
            td \in TaskDefNames, n \in 0..MaxCount,
            mn \in {NoneInt, 50}, w \in BOOLEAN}

\* state=absent: only the wait flag and the binding vary.
AbsentParams ==
    {Params("absent", None, NoneInt, l[1], l[2], l[3], l[4],
            NoneInt, NoneInt, FALSE, w) :
        l \in LBChoices, w \in BOOLEAN}

\* state=present with a required parameter missing or any binding pattern.
OtherPresentParams ==
    {Params("present", "td:1", 1, l[1], l[2], l[3], l[4],
            NoneInt, NoneInt, FALSE, TRUE) : l \in LBChoices}
    \cup {Params("present", None, 1, None, None, NoneInt, None,
                 NoneInt, NoneInt, FALSE, TRUE),
          Params("present", "td:1", NoneInt, "elb", None, NoneInt, None,
                 NoneInt, NoneInt, FALSE, TRUE)}

ParamSpace == PresentParams \cup AbsentParams \cup OtherPresentParams

-----------------------------------------------------------------------------
(* Pure parts of the module.                                               *)

\* main, "Validate Inputs": the message of the fail_json it ends in, or "".
ValidateInputs(p) ==
    IF p.state = "present"
    THEN IF p.desired_count = NoneInt
         THEN "To ensure the service is present, the desired_count must be specified"
         ELSE IF p.task_definition = None
         THEN "To ensure the service is present, a task_definition must be specified"
         ELSE IF ~( /\ (p.load_balancer = None) = (p.role = None)
                    /\ (p.role = None) = (p.container_port = NoneInt)
                    /\ (p.container_port = NoneInt) = (p.container_name = None) )
         THEN "When configuring load_balancer, container_name, container_port or role - you must specify load_balancer, container_name, container_port and role"
         ELSE ""
    ELSE ""

\* Variant of DeleteApplies that does not look at the fetched service.
DeleteApplies_unconditional(p, existing) ==
    p.state = "absent"

\* Variant of DeleteApplies that does not look at the status.
DeleteApplies_any_status(p, existing) ==
    p.state = "absent" /\ existing # NoneSvc

\* main, first branch: the service is to be deleted.
DeleteApplies(p, existing) ==
    p.state = "absent" /\ existing # NoneSvc /\ existing.status = "ACTIVE"

\* Variant of CreateApplies that does not look at the status.
CreateApplies_absent_only(existing) ==
    existing = NoneSvc

\* main, present branch: the service is to be created.
CreateApplies(existing) ==
    existing = NoneSvc \/ existing.status # "ACTIVE"

\* EcsServiceManager.describe_services on the collaborator's service s.
describe_services(s) == s

\* The arguments EcsServiceManager.create_service passes to ecs.create_service.
create_service_args(desired_count, task_definition, load_balancer, container_name, container_port, role, min_healthy_percent, max_percent) ==
    LET a0 == [cluster |-> ClusterName, serviceName |-> ServiceName,
               desiredCount |-> desired_count, taskDefinition |-> task_definition]
        a1 == PutIf(TruthyStr(role), a0, "role", role)
        l1 == PutIf(TruthyStr(load_balancer), EmptyDict,
                    "loadBalancerName", load_balancer)
        l2 == PutIf(TruthyStr(container_name), l1, "containerName", container_name)
        load_balancers == PutIf(TruthyInt(container_port), l2,
                                "containerPort", container_port)
        d1 == PutIf(TruthyInt(min_healthy_percent), EmptyDict,
                    "minimumHealthyPercent", min_healthy_percent)
        deployment_config == PutIf(TruthyInt(max_percent), d1,
                                   "maximumPercent", max_percent)
        a2 == PutIf(DOMAIN deployment_config # {}, a1,
                    "deploymentConfiguration", deployment_config)
    IN  PutIf(DOMAIN load_balancers # {}, a2, "loadBalancers", <<load_balancers>>)

\* Variant of update_service_args that passes desiredCount only when truthy.
update_service_args_truthy_count(desired_count, task_definition, min_healthy_percent, max_percent) ==
    LET a0 == [cluster |-> ClusterName, service |-> ServiceName]
        a1 == PutIf(TruthyInt(desired_count), a0, "desiredCount", desired_count)
        a2 == PutIf(TruthyStr(task_definition), a1, "taskDefinition", task_definition)
        d1 == PutIf(TruthyInt(min_healthy_percent), EmptyDict,
                    "minimumHealthyPercent", min_healthy_percent)
        deployment_config == PutIf(TruthyInt(max_percent), d1,
                                   "maximumPercent", max_percent)
    IN  PutIf(DOMAIN deployment_config # {}, a2,
              "deploymentConfiguration", deployment_config)

\* Variant of update_service_args that passes a loadBalancers list as
\* create_service does.
update_service_args_with_binding(desired_count, task_definition, min_healthy_percent, max_percent) ==
    LET a0 == [cluster |-> ClusterName, service |-> ServiceName,
               desiredCount |-> desired_count, loadBalancers |-> <<EmptyDict>>]
        a1 == PutIf(TruthyStr(task_definition), a0, "taskDefinition", task_definition)
        d1 == PutIf(TruthyInt(min_healthy_percent), EmptyDict,
                    "minimumHealthyPercent", min_healthy_percent)
        deployment_config == PutIf(TruthyInt(max_percent), d1,
                                   "maximumPercent", max_percent)
    IN  PutIf(DOMAIN deployment_config # {}, a1,
              "deploymentConfiguration", deployment_config)

\* The arguments EcsServiceManager.update_service passes to ecs.update_service.
update_service_args(desired_count, task_definition, min_healthy_percent, max_percent) ==
    LET a0 == [cluster |-> ClusterName, service |-> ServiceName,
               desiredCount |-> desired_count]
        a1 == PutIf(TruthyStr(task_definition), a0, "taskDefinition", task_definition)
        d1 == PutIf(TruthyInt(min_healthy_percent), EmptyDict,
                    "minimumHealthyPercent", min_healthy_percent)
        deployment_config == PutIf(TruthyInt(max_percent), d1,
                                   "maximumPercent", max_percent)
    IN  PutIf(DOMAIN deployment_config # {}, a1,
              "deploymentConfiguration", deployment_config)

\* delete_service's first step: update_service(False, cluster, name, 0).
delete_update_args == update_service_args(0, None, NoneInt, NoneInt)

\* The keys of target whose item is not an item of existing.
ItemsNotIn(target, existing) ==
    {k \in DOMAIN target : k \notin DOMAIN existing \/ existing[k] # target[k]}

\* Variant of check_for_update that also compares the bounds not supplied.
check_for_update_unset(desired, existing, task_definition_arn) ==
    LET target == [taskDefinition |-> task_definition_arn,
                   desiredCount |-> desired.desired_count]
        target_deployment_config ==
            [minimumHealthyPercent |-> desired.min_healthy_percent,
             maximumPercent |-> desired.max_percent]
        top == ItemsNotIn(target, existing)
    IN  IF top # {} THEN top
        ELSE ItemsNotIn(target_deployment_config, existing.deploymentConfiguration)

\* Variant of check_for_update that compares the task definition as given.
check_for_update_as_given(desired, existing, task_definition_arn) ==
    LET target == [taskDefinition |-> desired.task_definition,
                   desiredCount |-> desired.desired_count]
        t1 == PutIf(TruthyInt(desired.min_healthy_percent), EmptyDict,
                    "minimumHealthyPercent", desired.min_healthy_percent)
        target_deployment_config ==
            PutIf(TruthyInt(desired.max_percent), t1,
                  "maximumPercent", desired.max_percent)
        top == ItemsNotIn(target, existing)
    IN  IF top # {} THEN top
        ELSE ItemsNotIn(target_deployment_config, existing.deploymentConfiguration)

\* EcsServiceManager.check_for_update: the differing items (their keys), the
\* top-level ones or else those of the deployment configuration.
check_for_update(desired, existing, task_definition_arn) ==
    LET target == [taskDefinition |-> task_definition_arn,
                   desiredCount |-> desired.desired_count]
        existing_deployment_config == existing.deploymentConfiguration
        t1 == PutIf(TruthyInt(desired.min_healthy_percent), EmptyDict,
                    "minimumHealthyPercent", desired.min_healthy_percent)
        target_deployment_config ==
            PutIf(TruthyInt(desired.max_percent), t1,
                  "maximumPercent", desired.max_percent)
        top == ItemsNotIn(target, existing)
    IN  IF top # {} THEN top
        ELSE ItemsNotIn(target_deployment_config, existing_deployment_config)

\* json_serial: a datetime becomes its ISO-8601 string.
json_serial(obj) ==
    IF obj = "datetime(t0)" THEN "t0-iso8601" ELSE obj

\* fix_datetime: the JSON round trip of a service (or of None).
fix_datetime(result) ==
    IF result = NoneSvc THEN NoneSvc
    ELSE [result EXCEPT !.createdAt = json_serial(result.createdAt)]

\* The acceptors of botocore's 'services_stable' waiter on one response, in
\* their order: MISSING, DRAINING and INACTIVE fail, a rolled-out service
\* succeeds, anything else is polled again.
services_stable(s) ==
    IF s = NoneSvc THEN "failure"
    ELSE IF s.status \in {"DRAINING", "INACTIVE"} THEN "failure"
    ELSE IF ~s.pendingRollout THEN "success"
    ELSE "retry"

-----------------------------------------------------------------------------
(* State.                                                                  *)

VARIABLES
    svc,     \* the collaborator's service named ServiceName, or NoneSvc
    run,     \* per run of main(): its position, parameters and locals
    first    \* per run: the outcome of the run it repeats, if it repeats one

vars == <<svc, run, first>>

\* A run before main() is entered.
IdleRun ==
    [pc |-> "idle",
     params |-> Params("absent", None, NoneInt, None, None, NoneInt, None,
                       NoneInt, NoneInt, FALSE, TRUE),
     check_mode |-> FALSE,
     existing |-> NoneSvc,
     task_definition_arn |-> None,
     results |-> EmptyDict,
     attempts |-> 0,
     calls |-> <<>>,
     msg |-> "",
     cause |-> ""]

Call(op, args, ok) == [op |-> op, args |-> args, ok |-> ok]

DescribeArgs == [cluster |-> ClusterName, services |-> <<ServiceName>>]

DeleteArgs == [cluster |-> ClusterName, service |-> ServiceName]

Mutating == {"createService", "updateService", "deleteService"}

\* Variant of CantMsg with a message of its own for a wait that raised.
CantMsg_wait_apart(pc) ==
    CASE pc \in {"create_wait", "update_wait", "delete_wait"} ->
            "Timed out waiting for service"
      [] pc = "create_service" -> "Can't create service"
      [] pc \in {"update_service", "delete_update"} -> "Can't update service"
      [] pc = "delete_service" -> "Can't delete service"
      [] pc = "describe_task_definition" -> "Can't describe task definition"
      [] OTHER -> "Can't describe service"

\* The message fail_json reports when the step at pc raises in its try block.
CantMsg(pc) ==
    CASE pc \in {"create_service", "create_wait"} -> "Can't create service"
      [] pc \in {"update_service", "update_wait", "delete_update"} ->
            "Can't update service"
      [] pc \in {"delete_service", "delete_wait"} -> "Can't delete service"
      [] pc = "describe_task_definition" -> "Can't describe task definition"
      [] OTHER -> "Can't describe service"

\* The step after a mutating call or after a successful wait.
WaitPc(pc) ==
    CASE pc = "create_service" -> "create_wait"
      [] pc = "update_service" -> "update_wait"
      [] OTHER -> "delete_wait"

DescribePc(pc) ==
    CASE pc = "create_wait" -> "create_describe"
      [] pc = "update_wait" -> "update_describe"
      [] OTHER -> "delete_describe"

\* module.fail_json(msg=...): the run ends fatally.
Failed(rec, msg, cause, call) ==
    [rec EXCEPT !.pc = "failed", !.msg = msg, !.cause = cause,
                !.calls = IF call = <<>> THEN @ ELSE Append(@, call)]

\* module.exit_json(**results).
Exited(rec, results) == [rec EXCEPT !.pc = "done", !.results = results]

Init ==
    /\ svc \in InitialServices
    /\ run = [r \in Runs |-> IdleRun]
    /\ first = [r \in Runs |-> "none"]

-----------------------------------------------------------------------------
(* main(), one action per collaborator call.                               *)

\* What a run with parameters p and check mode cm repeats: the run before it,
\* if that one had the same parameters, passed createService and exited.
Repeats(rec, p, cm) ==
    IF /\ rec.pc = "done" /\ rec.params = p /\ rec.check_mode = cm
       /\ p.state = "present"
       /\ \E i \in DOMAIN rec.calls :
             rec.calls[i].op = "createService" /\ rec.calls[i].ok
    THEN IF rec.results["changed"] THEN "changed" ELSE "unchanged"
    ELSE "none"

\* main is entered with parameters p: AnsibleModule(...), "Validate Inputs".
Enter(r, p, cm) ==
    /\ LET msg == ValidateInputs(p)
           rec == [IdleRun EXCEPT !.params = p, !.check_mode = cm,
                                  !.pc = "describe_services"]
       IN  run' = [run EXCEPT ![r] =
                     IF msg = "" THEN rec ELSE Failed(rec, msg, "params", <<>>)]
    /\ first' = [first EXCEPT ![r] = Repeats(run[r], p, cm)]
    /\ UNCHANGED svc

\* main is run again with the parameters of the run that ended.
Reinvoke(r) ==
    /\ run[r].pc \in {"done", "failed"}
    /\ Enter(r, run[r].params, run[r].check_mode)

\* main is run for the first time.
Invoke(r, p, cm) ==
    /\ run[r].pc = "idle"
    /\ Enter(r, p, cm)

\* existing = service_mgr.describe_services(...), then the branch on it.
GetExisting(r) ==
    /\ run[r].pc = "describe_services"
    /\ \/ run' = [run EXCEPT ![r] =
                    Failed(@, CantMsg(@.pc), "ClientError",
                           Call("describeServices", DescribeArgs, FALSE))]
       \/ LET existing == describe_services(svc)
              p == run[r].params
              rec == [run[r] EXCEPT
                        !.existing = existing,
                        !.results = [changed |-> FALSE],
                        !.calls = Append(@, Call("describeServices",
                                                 DescribeArgs, TRUE))]
          IN  run' = [run EXCEPT ![r] =
                 IF DeleteApplies(p, existing)
                 THEN IF rec.check_mode
                      THEN Exited(rec, [changed |-> TRUE])
                      ELSE [rec EXCEPT !.pc = "delete_update"]
                 ELSE IF p.state = "present"
                 THEN [rec EXCEPT !.pc = "describe_task_definition"]
                 ELSE Exited(rec, rec.results)]
    /\ UNCHANGED <<svc, first>>

\* Variant of GetTaskDefinition in which check mode reports a change for
\* every ACTIVE service without comparing it.
GetTaskDefinition_check_mode_skips_compare(r) ==
    /\ run[r].pc = "describe_task_definition"
    /\ LET p == run[r].params
           args == [taskDefinition |-> p.task_definition]
       IN
       \/ run' = [run EXCEPT ![r] =
                    Failed(@, CantMsg(@.pc), "ClientError",
                           Call("describeTaskDefinition", args, FALSE))]
       \/ LET task_definition == TaskDefinitionOf(p.task_definition)
              arn == task_definition.taskDefinitionArn
              rec == [run[r] EXCEPT
                        !.task_definition_arn = arn,
                        !.calls = Append(@, Call("describeTaskDefinition",
                                                 args, TRUE))]
          IN  run' = [run EXCEPT ![r] =
                 IF task_definition.status # "ACTIVE"
                 THEN Failed(rec, "You must specify an active task definition",
                             "params", <<>>)
                 ELSE IF rec.check_mode
                 THEN Exited(rec, [changed |-> TRUE])
                 ELSE IF CreateApplies(rec.existing)
                 THEN [rec EXCEPT !.pc = "create_service"]
                 ELSE IF check_for_update(p, rec.existing, arn) # {}
                 THEN [rec EXCEPT !.pc = "update_service"]
                 ELSE Exited(rec, [changed |-> FALSE,
                                   service |-> fix_datetime(rec.existing)])]
    /\ UNCHANGED <<svc, first>>

\* task_definition = service_mgr.describe_task_definition(...), the decision
\* between create, update and nothing, and the exits that issue no call.
GetTaskDefinition(r) ==
    /\ run[r].pc = "describe_task_definition"
    /\ LET p == run[r].params
           args == [taskDefinition |-> p.task_definition]
       IN
       \/ run' = [run EXCEPT ![r] =
                    Failed(@, CantMsg(@.pc), "ClientError",
                           Call("describeTaskDefinition", args, FALSE))]
       \/ LET task_definition == TaskDefinitionOf(p.task_definition)
              arn == task_definition.taskDefinitionArn
              rec == [run[r] EXCEPT
                        !.task_definition_arn = arn,
                        !.calls = Append(@, Call("describeTaskDefinition",
                                                 args, TRUE))]
          IN  run' = [run EXCEPT ![r] =
                 IF task_definition.status # "ACTIVE"
                 THEN Failed(rec, "You must specify an active task definition",
                             "params", <<>>)
                 ELSE IF CreateApplies(rec.existing)
                 THEN IF rec.check_mode
                      THEN Exited(rec, [changed |-> TRUE])
                      ELSE [rec EXCEPT !.pc = "create_service"]
                 ELSE IF check_for_update(p, rec.existing, arn) # {}
                 THEN IF rec.check_mode
                      THEN Exited(rec, [changed |-> TRUE])
                      ELSE [rec EXCEPT !.pc = "update_service"]
                 ELSE Exited(rec, [changed |-> FALSE,
                                   service |-> fix_datetime(rec.existing)])]
    /\ UNCHANGED <<svc, first>>

\* Variant of AfterCall that falls through to the update after a call that
\* is not waited for.
AfterCall_falls_through(rec, wait, response) ==
    IF wait THEN [rec EXCEPT !.pc = WaitPc(rec.pc), !.attempts = 0]
    ELSE [rec EXCEPT !.pc = "update_service"]

\* Variant of AfterCall that leaves results['changed'] as it was set at the
\* start.
AfterCall_reports_unchanged(rec, wait, response) ==
    IF wait THEN [rec EXCEPT !.pc = WaitPc(rec.pc), !.attempts = 0]
    ELSE Exited(rec, [changed |-> FALSE, service |-> fix_datetime(response)])

\* After a mutating call returned: wait, or exit with its response.
AfterCall(rec, wait, response) ==
    IF wait THEN [rec EXCEPT !.pc = WaitPc(rec.pc), !.attempts = 0]
    ELSE Exited(rec, [changed |-> TRUE, service |-> fix_datetime(response)])

\* Variant of CreateService that reads the service again before the call and
\* leaves a service that became ACTIVE meanwhile alone.
CreateService_refetching(r) ==
    /\ run[r].pc = "create_service"
    /\ LET p == run[r].params
           args == create_service_args(p.desired_count, p.task_definition,
                       p.load_balancer, p.container_name, p.container_port,
                       p.role, p.min_healthy_percent, p.max_percent)
           rec == [run[r] EXCEPT
                     !.existing = describe_services(svc),
                     !.calls = Append(@, Call("describeServices",
                                              DescribeArgs, TRUE))]
       IN
       \/ /\ svc # NoneSvc /\ svc.status = "ACTIVE"
          /\ run' = [run EXCEPT ![r] =
                       Exited(rec, [changed |-> FALSE,
                                    service |-> fix_datetime(rec.existing)])]
          /\ UNCHANGED svc
       \/ /\ svc = NoneSvc \/ svc.status = "INACTIVE"
          /\ svc' = EcsCreate(args)
          /\ run' = [run EXCEPT ![r] =
                       AfterCall([rec EXCEPT !.calls =
                                     Append(@, Call("createService", args, TRUE))],
                                 p.wait_until_stable, svc')]
    /\ UNCHANGED first

\* create_service: ecs.create_service(**args).
CreateService(r) ==
    /\ run[r].pc = "create_service"
    /\ LET p == run[r].params
           args == create_service_args(p.desired_count, p.task_definition,
                       p.load_balancer, p.container_name, p.container_port,
                       p.role, p.min_healthy_percent, p.max_percent)
       IN
       \/ /\ run' = [run EXCEPT ![r] =
                       Failed(@, CantMsg(@.pc), "ClientError",
                              Call("createService", args, FALSE))]
          /\ UNCHANGED svc
       \/ /\ svc = NoneSvc \/ svc.status = "INACTIVE"
          /\ svc' = EcsCreate(args)
          /\ run' = [run EXCEPT ![r] =
                       AfterCall([@ EXCEPT !.calls =
                                     Append(@, Call("createService", args, TRUE))],
                                 p.wait_until_stable, svc')]
    /\ UNCHANGED first

\* update_service: ecs.update_service(**args).
UpdateService(r) ==
    /\ run[r].pc = "update_service"
    /\ LET p == run[r].params
           args == update_service_args(p.desired_count, p.task_definition,
                                       p.min_healthy_percent, p.max_percent)
       IN
       \/ /\ run' = [run EXCEPT ![r] =
                       Failed(@, CantMsg(@.pc), "ClientError",
                              Call("updateService", args, FALSE))]
          /\ UNCHANGED svc
       \/ /\ svc # NoneSvc /\ svc.status = "ACTIVE"
          /\ svc' = EcsUpdate(svc, args)
          /\ run' = [run EXCEPT ![r] =
                       AfterCall([@ EXCEPT !.calls =
                                     Append(@, Call("updateService", args, TRUE))],
                                 p.wait_until_stable, svc')]
    /\ UNCHANGED first

\* Variant of DeleteUpdate that goes on to the delete when the update raised.
DeleteUpdate_unchecked(r) ==
    /\ run[r].pc = "delete_update"
    /\ \/ /\ run' = [run EXCEPT ![r] =
                       [@ EXCEPT !.pc = "delete_service",
                                 !.calls = Append(@, Call("updateService",
                                                    delete_update_args, FALSE))]]
          /\ UNCHANGED svc
       \/ /\ svc # NoneSvc /\ svc.status = "ACTIVE"
          /\ svc' = EcsUpdate(svc, delete_update_args)
          /\ run' = [run EXCEPT ![r] =
                       [@ EXCEPT !.pc = "delete_service",
                                 !.calls = Append(@, Call("updateService",
                                                    delete_update_args, TRUE))]]
    /\ UNCHANGED first

\* delete_service, first step: update_service(False, cluster, name, 0).
DeleteUpdate(r) ==
    /\ run[r].pc = "delete_update"
    /\ \/ /\ run' = [run EXCEPT ![r] =
                       Failed(@, CantMsg(@.pc), "ClientError",
                              Call("updateService", delete_update_args, FALSE))]
          /\ UNCHANGED svc
       \/ /\ svc # NoneSvc /\ svc.status = "ACTIVE"
          /\ svc' = EcsUpdate(svc, delete_update_args)
          /\ run' = [run EXCEPT ![r] =
                       [@ EXCEPT !.pc = "delete_service",
                                 !.calls = Append(@, Call("updateService",
                                                    delete_update_args, TRUE))]]
    /\ UNCHANGED first

\* Variant of DeleteService that waits whatever the wait flag is.
DeleteService_always_waits(r) ==
    /\ run[r].pc = "delete_service"
    /\ \/ /\ run' = [run EXCEPT ![r] =
                       Failed(@, CantMsg(@.pc), "ClientError",
                              Call("deleteService", DeleteArgs, FALSE))]
          /\ UNCHANGED svc
       \/ /\ svc # NoneSvc /\ svc.status = "ACTIVE" /\ svc.desiredCount = 0
          /\ svc' = EcsDelete(svc)
          /\ run' = [run EXCEPT ![r] =
                       [@ EXCEPT !.pc = "delete_wait",
                                 !.attempts = 0,
                                 !.calls = Append(@, Call("deleteService",
                                                          DeleteArgs, TRUE))]]
    /\ UNCHANGED first

\* delete_service, second step: ecs.delete_service(cluster, service).
DeleteService(r) ==
    /\ run[r].pc = "delete_service"
    /\ \/ /\ run' = [run EXCEPT ![r] =
                       Failed(@, CantMsg(@.pc), "ClientError",
                              Call("deleteService", DeleteArgs, FALSE))]
          /\ UNCHANGED svc
       \/ /\ svc # NoneSvc /\ svc.status = "ACTIVE" /\ svc.desiredCount = 0
          /\ svc' = EcsDelete(svc)
          /\ run' = [run EXCEPT ![r] =
                       [@ EXCEPT !.pc = IF run[r].params.wait_until_inactive
                                        THEN "delete_wait" ELSE "delete_describe",
                                 !.attempts = 0,
                                 !.calls = Append(@, Call("deleteService",
                                                          DeleteArgs, TRUE))]]
    /\ UNCHANGED first

\* Variant of WaiterPoll with no bound on the polls.
WaiterPoll_unbounded(r) ==
    /\ run[r].pc \in {"create_wait", "update_wait", "delete_wait"}
    /\ \/ run' = [run EXCEPT ![r] =
                    Failed(@, CantMsg(@.pc), "ClientError",
                           Call("waiterPoll", DescribeArgs, FALSE))]
       \/ LET rec == [run[r] EXCEPT
                        !.attempts = @ + 1,
                        !.calls = Append(@, Call("waiterPoll", DescribeArgs, TRUE))]
              state == services_stable(svc)
          IN  run' = [run EXCEPT ![r] =
                 IF state = "success"
                 THEN [rec EXCEPT !.pc = DescribePc(rec.pc)]
                 ELSE IF state = "failure"
                 THEN Failed(rec, CantMsg(rec.pc), "WaiterError: failure state", <<>>)
                 ELSE rec]
    /\ UNCHANGED <<svc, first>>

\* One poll of waiter.wait(...) for the 'services_stable' waiter, which
\* wait_until_stable and delete_service both use.
WaiterPoll(r) ==
    /\ run[r].pc \in {"create_wait", "update_wait", "delete_wait"}
    /\ \/ run' = [run EXCEPT ![r] =
                    Failed(@, CantMsg(@.pc), "ClientError",
                           Call("waiterPoll", DescribeArgs, FALSE))]
       \/ LET rec == [run[r] EXCEPT
                        !.attempts = @ + 1,
                        !.calls = Append(@, Call("waiterPoll", DescribeArgs, TRUE))]
              state == services_stable(svc)
          IN  run' = [run EXCEPT ![r] =
                 IF state = "success"
                 THEN [rec EXCEPT !.pc = DescribePc(rec.pc)]
                 ELSE IF state = "failure"
                 THEN Failed(rec, CantMsg(rec.pc), "WaiterError: failure state", <<>>)
                 ELSE IF rec.attempts >= MaxAttempts
                 THEN Failed(rec, CantMsg(rec.pc),
                             "WaiterError: Max attempts exceeded", <<>>)
                 ELSE rec]
    /\ UNCHANGED <<svc, first>>

\* The describe_services that ends create_service and update_service after a
\* wait, and delete_service always.
FinalDescribe(r) ==
    /\ run[r].pc \in {"create_describe", "update_describe", "delete_describe"}
    /\ \/ run' = [run EXCEPT ![r] =
                    Failed(@, "Can't describe service", "ClientError",
                           Call("describeServices", DescribeArgs, FALSE))]
       \/ run' = [run EXCEPT ![r] =
                    Exited([@ EXCEPT !.calls =
                               Append(@, Call("describeServices", DescribeArgs, TRUE))],
                           [changed |-> TRUE,
                            service |-> fix_datetime(describe_services(svc))])]
    /\ UNCHANGED <<svc, first>>

-----------------------------------------------------------------------------
(* The collaborator's own steps.                                           *)

\* The deployment of an ACTIVE service finishes rolling out.
RolledOut ==
    /\ svc # NoneSvc /\ svc.status = "ACTIVE" /\ svc.pendingRollout
    /\ svc' = [svc EXCEPT !.pendingRollout = FALSE]
    /\ UNCHANGED <<run, first>>

\* A DRAINING service becomes INACTIVE.
Drained ==
    /\ svc # NoneSvc /\ svc.status = "DRAINING"
    /\ svc' = [svc EXCEPT !.status = "INACTIVE", !.pendingRollout = FALSE]
    /\ UNCHANGED <<run, first>>

\* An INACTIVE service is eventually no longer described.
Forgotten ==
    /\ svc # NoneSvc /\ svc.status = "INACTIVE"
    /\ svc' = NoneSvc
    /\ UNCHANGED <<run, first>>

-----------------------------------------------------------------------------
(* One run of main() after another.                                        *)

Next ==
    \/ \E p \in ParamSpace, cm \in BOOLEAN : Invoke(1, p, cm)
    \/ Reinvoke(1)
    \/ GetExisting(1)
    \/ GetTaskDefinition(1)
    \/ CreateService(1)
    \/ UpdateService(1)
    \/ DeleteUpdate(1)
    \/ DeleteService(1)
    \/ WaiterPoll(1)
    \/ FinalDescribe(1)
    \/ RolledOut
    \/ Drained
    \/ Forgotten

Spec == Init /\ [][Next]_vars

\* A step of main() in run r after it was entered.
RunStep(r) ==
    \/ GetExisting(r)
    \/ GetTaskDefinition(r)
    \/ CreateService(r)
    \/ UpdateService(r)
    \/ DeleteUpdate(r)
    \/ DeleteService(r)
    \/ WaiterPoll(r)
    \/ FinalDescribe(r)

\* The interpreter goes on executing main(): every collaborator call returns
\* or raises.  Nothing is assumed of the collaborator's own steps.
FairSpec == Spec /\ WF_vars(RunStep(1))

-----------------------------------------------------------------------------
(* Two runs of main() at once against the same service.                    *)

\* The parameters the concurrent runs are given.
ConcParams ==
    {Params("present", "td:1", MaxCount, None, None, NoneInt, None,
            NoneInt, NoneInt, FALSE, TRUE),
     Params("present", "td", 0, None, None, NoneInt, None,
            50, NoneInt, TRUE, TRUE),
     Params("absent", None, NoneInt, None, None, NoneInt, None,
            NoneInt, NoneInt, FALSE, FALSE),
     Params("absent", None, NoneInt, None, None, NoneInt, None,
            NoneInt, NoneInt, FALSE, TRUE)}

InitConc ==
    /\ svc \in {NoneSvc,
                Service("ACTIVE", MaxCount, "arn:td:1", 100, 200, <<>>, None, FALSE)}
    /\ run = [r \in Runs |-> IdleRun]
    /\ first = [r \in Runs |-> "none"]

NextConc ==
    \/ \E r \in Runs, p \in ConcParams, cm \in BOOLEAN : Invoke(r, p, cm)
    \/ \E r \in Runs : RunStep(r)
    \/ RolledOut
    \/ Drained
    \/ Forgotten

SpecConc == InitConc /\ [][NextConc]_vars

-----------------------------------------------------------------------------
(* Vocabulary of the properties.                                           *)

\* The run got an answer from its first describe_services.
Fetched(rec) ==
    /\ Len(rec.calls) >= 1
    /\ rec.calls[1].op = "describeServices"
    /\ rec.calls[1].ok

\* The fetched service is there and ACTIVE.
FetchedActive(rec) ==
    Fetched(rec) /\ rec.existing # NoneSvc /\ rec.existing.status = "ACTIVE"

\* The run resolved its task definition to an ACTIVE one.
Resolved(rec) ==
    /\ rec.task_definition_arn # None
    /\ rec.msg # "You must specify an active task definition"

\* The positions of the calls of operation op the run has issued.
Issued(rec, op) == {i \in DOMAIN rec.calls : rec.calls[i].op = op}

IssuedMutating(rec) == {i \in DOMAIN rec.calls : rec.calls[i].op \in Mutating}

\* A supplied (not None) field of p differs from the fetched service.
SuppliedDiffers(rec) ==
    LET p == rec.params
        e == rec.existing
    IN  \/ rec.task_definition_arn # e.taskDefinition
        \/ p.desired_count # e.desiredCount
        \/ /\ p.min_healthy_percent # NoneInt
           /\ p.min_healthy_percent # e.deploymentConfiguration.minimumHealthyPercent
        \/ /\ p.max_percent # NoneInt
           /\ p.max_percent # e.deploymentConfiguration.maximumPercent

\* The run is past the decision of present mode on an ACTIVE service.
DecidedOnActive(rec) ==
    /\ rec.params.state = "present"
    /\ FetchedActive(rec)
    /\ Resolved(rec)
    /\ rec.pc # "describe_task_definition"

-----------------------------------------------------------------------------
(* Properties.                                                             *)

\* C1 (as claimed): in present mode on an ACTIVE service, when a supplied
\* field (a supplied 0 included) differs from the fetched one, the run that
\* exits reports changed=true.
C1_UpdateWhenSuppliedDiffers ==
    \A r \in Runs :
        (DecidedOnActive(run[r]) /\ SuppliedDiffers(run[r]) /\ run[r].pc = "done")
            => run[r].results["changed"]

C3_CreateAlwaysIssued ==
    \A r \in Runs :
        ( /\ run[r].params.state = "present" /\ Fetched(run[r])
          /\ ~FetchedActive(run[r]) /\ run[r].pc = "done" )
            => /\ Issued(run[r], "createService") # {}
               /\ Issued(run[r], "updateService") = {}

\* C3 (amended): a present-mode run that fetched no service, or one that is
\* not ACTIVE, never issues updateService or deleteService; once its task
\* definition is resolved to an ACTIVE one the decision is Create whatever
\* the other fields are: in check mode it exits with changed=true and no
\* call, otherwise createService is its next call and its exit reports
\* changed=true.
C3_CreateDecision ==
    \A r \in Runs :
        ( /\ run[r].params.state = "present" /\ Fetched(run[r])
          /\ ~FetchedActive(run[r]) )
            => /\ Issued(run[r], "updateService") = {}
               /\ Issued(run[r], "deleteService") = {}
               /\ (Resolved(run[r]) /\ run[r].pc # "describe_task_definition")
                    => IF run[r].check_mode
                       THEN /\ run[r].pc = "done"
                            /\ run[r].results = [changed |-> TRUE]
                            /\ IssuedMutating(run[r]) = {}
                       ELSE /\ run[r].pc # "create_service"
                                => /\ Len(run[r].calls) >= 3
                                   /\ run[r].calls[3].op = "createService"
                            /\ run[r].pc = "done" => run[r].results["changed"]

C3_Witness ==
    \E r \in Runs :
        /\ run[r].params.state = "present" /\ Fetched(run[r])
        /\ run[r].existing # NoneSvc /\ run[r].existing.status = "INACTIVE"
        /\ run[r].existing.desiredCount # run[r].params.desired_count
        /\ run[r].pc = "done"
        /\ \E i \in Issued(run[r], "createService") : run[r].calls[i].ok

\* C4: a run issues deleteService only after an updateService that set the
\* desired count to 0 has returned, and a delete run on an ACTIVE service
\* issues that update first.
C4_ZeroBeforeDelete ==
    \A r \in Runs :
        /\ \A i \in Issued(run[r], "deleteService") :
              \E j \in Issued(run[r], "updateService") :
                 /\ j < i
                 /\ run[r].calls[j].ok
                 /\ "desiredCount" \in DOMAIN run[r].calls[j].args
                 /\ run[r].calls[j].args["desiredCount"] = 0
        /\ ( /\ FetchedActive(run[r]) /\ run[r].params.state = "absent"
             /\ ~run[r].check_mode /\ run[r].pc # "delete_update" )
              => /\ Len(run[r].calls) >= 2
                 /\ run[r].calls[2].op = "updateService"
                 /\ "desiredCount" \in DOMAIN run[r].calls[2].args
                 /\ run[r].calls[2].args["desiredCount"] = 0

C4_Witness ==
    \E r \in Runs :
        /\ run[r].existing # NoneSvc /\ run[r].existing.desiredCount > 0
        /\ \E i \in Issued(run[r], "deleteService") : run[r].calls[i].ok

\* C5 (as claimed): a delete run that was asked to wait blocks until the
\* service is INACTIVE: once deleteService has returned, the run exits only
\* with a service whose status is INACTIVE, and it fails only by an error
\* of a call or by running out of polls, never because the service is
\* DRAINING or INACTIVE.
C5_WaitsUntilInactive ==
    \A r \in Runs :
        ( /\ run[r].params.state = "absent" /\ run[r].params.wait_until_inactive
          /\ \E i \in Issued(run[r], "deleteService") : run[r].calls[i].ok )
            => /\ run[r].pc = "done"
                    => /\ run[r].results["service"] # NoneSvc
                       /\ run[r].results["service"].status = "INACTIVE"
               /\ run[r].pc = "failed"
                    => run[r].cause \in {"ClientError",
                                         "WaiterError: Max attempts exceeded"}

\* The load-balancer parameters of p that are given.
GivenLB(p) ==
    {k \in {"load_balancer", "container_name", "role"} : p[k] # None}
    \cup (IF p.container_port # NoneInt THEN {"container_port"} ELSE {})

LBMessage ==
    "When configuring load_balancer, container_name, container_port or role - you must specify load_balancer, container_name, container_port and role"

\* C6 (as claimed): in either mode a run given one, two or three of the four
\* load-balancer parameters fails on its parameters before any collaborator
\* call, and a run given none or all four does not fail for this reason.
C6_PartialBindingRejected ==
    \A r \in Runs :
        run[r].pc # "idle"
            => IF Cardinality(GivenLB(run[r].params)) \in 1..3
               THEN /\ run[r].pc = "failed"
                    /\ run[r].cause = "params"
                    /\ run[r].calls = <<>>
               ELSE run[r].msg # LBMessage

\* C7: a present-mode run that repeats, with the same parameters, a run
\* that created the service and exited: the first reported changed=true, and
\* the second issues no mutating call and exits with changed=false.
C7_Idempotent ==
    \A r \in Runs :
        first[r] # "none"
            => /\ first[r] = "changed"
               /\ IssuedMutating(run[r]) = {}
               /\ run[r].pc = "done" => ~run[r].results["changed"]
               /\ run[r].pc \notin {"create_service", "update_service"}

C7_Witness ==
    \E r \in Runs :
        /\ first[r] = "changed"
        /\ run[r].pc = "done"
        /\ run[r].params.task_definition = "td"
        /\ run[r].params.min_healthy_percent = 0
        /\ run[r].params.max_percent = 150

\* C8 (as claimed): a delete run that fetched no service ends in a fatal
\* error.
C8_AbsentDeleteFails ==
    \A r \in Runs :
        ( /\ run[r].params.state = "absent" /\ Fetched(run[r])
          /\ run[r].existing = NoneSvc /\ run[r].pc \in {"done", "failed"} )
            => run[r].pc = "failed"

\* C8 (amended): a delete run that fetched no service exits at once with
\* changed=false and no service, having issued no call but the fetch.
C8_AbsentDeleteNoOp ==
    \A r \in Runs :
        ( /\ run[r].params.state = "absent" /\ Fetched(run[r])
          /\ run[r].existing = NoneSvc )
            => /\ run[r].pc = "done"
               /\ run[r].results = [changed |-> FALSE]
               /\ Len(run[r].calls) = 1

C8_Witness ==
    \E r \in Runs :
        /\ run[r].params.state = "absent" /\ Fetched(run[r])
        /\ run[r].existing = NoneSvc /\ run[r].pc = "done"
        /\ ~run[r].check_mode

\* C9: a delete run issues updateService and deleteService only if the
\* service it fetched was ACTIVE; having fetched none, or a DRAINING or
\* INACTIVE one, it exits with changed=false without either call.
C9_DeleteOnlyFromActive ==
    \A r \in Runs :
        (run[r].params.state = "absent" /\ Fetched(run[r]) /\ ~FetchedActive(run[r]))
            => /\ Issued(run[r], "updateService") = {}
               /\ Issued(run[r], "deleteService") = {}
               /\ run[r].pc = "done"
               /\ ~run[r].results["changed"]

C9_Witness ==
    \E r \in Runs :
        /\ run[r].params.state = "absent" /\ Fetched(run[r])
        /\ run[r].existing # NoneSvc /\ run[r].existing.status = "DRAINING"
        /\ ~run[r].check_mode
        /\ run[r].pc = "done"

\* The keys and values an updateService call carries if it carries exactly
\* the supplied (not None) fields of p.
SuppliedUpdateArgs(p) ==
    LET a0 == [cluster |-> ClusterName, service |-> ServiceName]
        a1 == PutIf(p.desired_count # NoneInt, a0, "desiredCount", p.desired_count)
        a2 == PutIf(p.task_definition # None, a1, "taskDefinition", p.task_definition)
        d1 == PutIf(p.min_healthy_percent # NoneInt, EmptyDict,
                    "minimumHealthyPercent", p.min_healthy_percent)
        d2 == PutIf(p.max_percent # NoneInt, d1, "maximumPercent", p.max_percent)
    IN  PutIf(DOMAIN d2 # {}, a2, "deploymentConfiguration", d2)

\* C10 (as claimed): an updateService call of a present-mode run carries
\* the service, the cluster and exactly the supplied fields, a supplied 0
\* included.
C10_UpdateCarriesSupplied ==
    \A r \in Runs :
        run[r].params.state = "present"
            => \A i \in Issued(run[r], "updateService") :
                  run[r].calls[i].args = SuppliedUpdateArgs(run[r].params)


\* The keys and values a createService call carries if it carries the four
\* mandatory fields, the binding when given, and exactly the supplied (not
\* None) deployment bounds of p.
SuppliedCreateArgs(p) ==
    LET a0 == [cluster |-> ClusterName, serviceName |-> ServiceName,
               desiredCount |-> p.desired_count,
               taskDefinition |-> p.task_definition]
        a1 == PutIf(p.role # None, a0, "role", p.role)
        a2 == PutIf(p.load_balancer # None, a1, "loadBalancers",
                    <<[loadBalancerName |-> p.load_balancer,
                       containerName |-> p.container_name,
                       containerPort |-> p.container_port]>>)
        d1 == PutIf(p.min_healthy_percent # NoneInt, EmptyDict,
                    "minimumHealthyPercent", p.min_healthy_percent)
        d2 == PutIf(p.max_percent # NoneInt, d1, "maximumPercent", p.max_percent)
    IN  PutIf(DOMAIN d2 # {}, a2, "deploymentConfiguration", d2)

\* C11 (as claimed): a createService call carries serviceName, cluster,
\* taskDefinition and desiredCount, role and loadBalancers exactly when the
\* binding was given, and a deploymentConfiguration with exactly the
\* supplied bounds, a supplied 0 included.
C11_CreateCarriesSupplied ==
    \A r \in Runs :
        \A i \in Issued(run[r], "createService") :
            run[r].calls[i].args = SuppliedCreateArgs(run[r].params)

\* The keys of a call that belong to a load-balancer binding.
BindingKeys ==
    {"loadBalancers", "loadBalancerName", "containerName", "containerPort", "role"}

\* C12: no updateService call, of an Update or of the zero-out step of a
\* delete, carries a load-balancer field: it carries the cluster, the
\* service and at most desiredCount, taskDefinition and a
\* deploymentConfiguration of the two bounds, whatever the caller gave.
C12_UpdateNeverCarriesBinding ==
    \A r \in Runs :
        \A i \in Issued(run[r], "updateService") :
            LET args == run[r].calls[i].args
            IN  /\ DOMAIN args \cap BindingKeys = {}
                /\ DOMAIN args \subseteq {"cluster", "service", "desiredCount",
                                          "taskDefinition", "deploymentConfiguration"}
                /\ "deploymentConfiguration" \in DOMAIN args
                      => DOMAIN args["deploymentConfiguration"]
                            \subseteq {"minimumHealthyPercent", "maximumPercent"}

C12_Witness ==
    \E r \in Runs :
        /\ run[r].params.state = "present"
        /\ run[r].params.load_balancer = "elb"
        /\ run[r].params.role = "ecsServiceRole"
        /\ FetchedActive(run[r])
        /\ run[r].existing.loadBalancers = BoundLB
        /\ \E i \in Issued(run[r], "updateService") : run[r].calls[i].ok
        /\ svc # NoneSvc /\ svc.loadBalancers = BoundLB


\* The run's wait was ended by the waiter (a failure state or a timeout).
WaiterFailed(rec) ==
    rec.cause \in {"WaiterError: failure state",
                   "WaiterError: Max attempts exceeded"}

\* C13: in a delete run a call that raised is the last call of the run and
\* the run is fatal (so a failed zero-out update is followed by no
\* deleteService, a failed deleteService by no poll and no describe); a wait
\* that failed or timed out is followed by no describe; a fatal run carries
\* no service in its results; and no step is issued twice.
C13_DeleteAbortsOnFailure ==
    \A r \in Runs :
        run[r].params.state = "absent"
            => /\ \A i \in DOMAIN run[r].calls :
                     ~run[r].calls[i].ok
                        => i = Len(run[r].calls) /\ run[r].pc = "failed"
               /\ WaiterFailed(run[r])
                     => /\ run[r].pc = "failed"
                        /\ run[r].calls[Len(run[r].calls)].op = "waiterPoll"
               /\ run[r].pc = "failed"
                     => "service" \notin DOMAIN run[r].results
               /\ Cardinality(Issued(run[r], "updateService")) <= 1
               /\ Cardinality(Issued(run[r], "deleteService")) <= 1

C13_Witness ==
    \E r \in Runs :
        /\ run[r].params.state = "absent"
        /\ run[r].pc = "failed"
        /\ Len(run[r].calls) = 3
        /\ run[r].calls[2].op = "updateService" /\ run[r].calls[2].ok
        /\ run[r].calls[3].op = "deleteService" /\ ~run[r].calls[3].ok
        /\ svc # NoneSvc /\ svc.status = "ACTIVE" /\ svc.desiredCount = 0
        /\ run[r].existing.desiredCount > 0


\* The message with which a run reports that its mutating call op raised.
CallFailureMsg(op) ==
    CASE op = "createService" -> "Can't create service"
      [] op = "updateService" -> "Can't update service"
      [] OTHER -> "Can't delete service"

\* The last mutating call the run issued.
LastMutating(rec) ==
    rec.calls[CHOOSE i \in IssuedMutating(rec) :
                 \A j \in IssuedMutating(rec) : j <= i]

\* C14 (as claimed): a run whose wait timed out is fatal with a message that
\* no failure of a mutating call is reported with.
C14_TimeoutReportedApart ==
    \A r \in Runs :
        run[r].cause = "WaiterError: Max attempts exceeded"
            => /\ run[r].pc = "failed"
               /\ run[r].msg \notin {CallFailureMsg(op) : op \in Mutating}

\* C14 (amended): a run whose wait timed out is fatal, returns no service,
\* and reports it with the very message it would report a failure of the
\* mutating call it waited for; only the text of the exception that follows
\* the message tells the two apart.
C14_TimeoutReportedAsCallFailure ==
    \A r \in Runs :
        run[r].cause = "WaiterError: Max attempts exceeded"
            => /\ run[r].pc = "failed"
               /\ "service" \notin DOMAIN run[r].results
               /\ run[r].attempts = MaxAttempts
               /\ IssuedMutating(run[r]) # {}
               /\ LastMutating(run[r]).ok
               /\ run[r].msg = CallFailureMsg(LastMutating(run[r]).op)

C14_Witness ==
    \E r \in Runs :
        /\ run[r].cause = "WaiterError: Max attempts exceeded"
        /\ run[r].pc = "failed"
        /\ Issued(run[r], "createService") # {}
        /\ svc # NoneSvc /\ svc.status = "ACTIVE" /\ svc.pendingRollout


\* C15: a delete run with the wait flag false never polls a waiter, so it
\* never fails by a waiter; after deleteService returned its only further
\* call is one describe_services, and it exits with changed=true and the
\* service that describe returned, zeroed and no longer ACTIVE.
C15_DeleteWithoutWait ==
    \A r \in Runs :
        (run[r].params.state = "absent" /\ ~run[r].params.wait_until_inactive)
            => /\ Issued(run[r], "waiterPoll") = {}
               /\ ~WaiterFailed(run[r])
               /\ run[r].attempts = 0
               /\ \A i \in Issued(run[r], "deleteService") :
                     /\ i = 3
                     /\ Len(run[r].calls) <= 4
                     /\ Len(run[r].calls) = 4
                           => run[r].calls[4].op = "describeServices"
                     /\ run[r].calls[i].ok /\ run[r].pc # "delete_describe"
                           => Len(run[r].calls) = 4
                     /\ run[r].pc = "done"
                           => /\ run[r].results["changed"]
                              /\ run[r].results["service"] # NoneSvc
                                    => /\ run[r].results["service"].status
                                              \in {"DRAINING", "INACTIVE"}
                                       /\ run[r].results["service"].desiredCount = 0
                                       /\ run[r].results["service"].createdAt
                                              = "t0-iso8601"

C15_Witness ==
    \E r \in Runs :
        /\ run[r].params.state = "absent" /\ ~run[r].params.wait_until_inactive
        /\ run[r].pc = "done"
        /\ Len(run[r].calls) = 4
        /\ run[r].results["service"] # NoneSvc
        /\ run[r].results["service"].status = "DRAINING"

\* C16: within one run createService is issued at most once and
\* deleteService at most once, createService never together with
\* updateService or deleteService, and the only run that issues two mutating
\* calls is a delete: one zero-out updateService, then one deleteService.
C16_OneOperationPerRun ==
    \A r \in Runs :
        /\ Cardinality(Issued(run[r], "createService")) <= 1
        /\ Cardinality(Issued(run[r], "deleteService")) <= 1
        /\ Issued(run[r], "createService") # {}
              => /\ Issued(run[r], "updateService") = {}
                 /\ Issued(run[r], "deleteService") = {}
        /\ Cardinality(IssuedMutating(run[r])) <= 2
        /\ Cardinality(IssuedMutating(run[r])) = 2
              => /\ run[r].params.state = "absent"
                 /\ run[r].calls[2] = Call("updateService", delete_update_args, TRUE)
                 /\ run[r].calls[3].op = "deleteService"

C16_Witness ==
    \E r \in Runs :
        /\ Cardinality(IssuedMutating(run[r])) = 2
        /\ run[r].pc = "done"


\* C17: a run in check mode issues no mutating call and polls no waiter; and
\* when a run in check mode and a run not in check mode were given the same
\* parameters, fetched the same service and both exited, they report the
\* same 'changed'.
C17_CheckModeSameChanged ==
    /\ \A r \in Runs :
          run[r].check_mode
            => /\ IssuedMutating(run[r]) = {}
               /\ Issued(run[r], "waiterPoll") = {}
               /\ Issued(run[r], "describeServices") \subseteq {1}
    /\ \A r, q \in Runs :
          (/\ run[r].check_mode /\ ~run[q].check_mode
           /\ run[r].params = run[q].params
           /\ run[r].pc = "done" /\ run[q].pc = "done"
           /\ Fetched(run[r]) /\ Fetched(run[q])
           /\ run[r].existing = run[q].existing)
            => run[r].results["changed"] = run[q].results["changed"]

\* A check-mode run and a normal run of the same parameters on the same
\* fetched service: both report a change, only the normal one made it.
C17_Witness ==
    \E r, q \in Runs :
        /\ run[r].check_mode /\ ~run[q].check_mode
        /\ run[r].params = run[q].params
        /\ run[r].pc = "done" /\ run[q].pc = "done"
        /\ Fetched(run[r]) /\ Fetched(run[q])
        /\ run[r].existing = run[q].existing
        /\ run[r].results["changed"] /\ run[q].results["changed"]
        /\ IssuedMutating(run[r]) = {}
        /\ IssuedMutating(run[q]) # {}

\* The same pair on a service that already is as asked: neither reports a
\* change.
C17_WitnessUnchanged ==
    \E r, q \in Runs :
        /\ run[r].check_mode /\ ~run[q].check_mode
        /\ run[r].params = run[q].params
        /\ run[r].pc = "done" /\ run[q].pc = "done"
        /\ FetchedActive(run[r]) /\ run[r].existing = run[q].existing
        /\ ~run[r].results["changed"] /\ ~run[q].results["changed"]

\* C18: a run outside check mode that exits reports changed=true exactly if
\* it issued a mutating call.
C18_ChangedIffMutated ==
    \A r \in Runs :
        (run[r].pc = "done" /\ ~run[r].check_mode)
            => (run[r].results["changed"] <=> IssuedMutating(run[r]) # {})

C18_Witness ==
    \E r \in Runs :
        /\ run[r].pc = "done" /\ ~run[r].check_mode
        /\ run[r].results["changed"]
        /\ ~run[r].params.wait_until_stable
        /\ Issued(run[r], "updateService") # {}


\* The run has been entered and has not ended.
Running(rec) == rec.pc \notin {"idle", "done", "failed"}

\* C19: a run that was entered ends, by exit_json or by fail_json, whatever
\* the service does; a wait makes at most MaxAttempts polls.
C19_Terminates ==
    /\ [](\A r \in Runs :
             /\ run[r].attempts <= MaxAttempts
             /\ Cardinality(Issued(run[r], "waiterPoll")) <= MaxAttempts)
    /\ \A r \in Runs : Running(run[r]) ~> ~Running(run[r])

C19_Witness ==
    \E r \in Runs :
        /\ run[r].pc = "failed"
        /\ run[r].cause = "WaiterError: Max attempts exceeded"
        /\ Cardinality(Issued(run[r], "waiterPoll")) = MaxAttempts
        /\ Issued(run[r], "updateService") # {}
        /\ Issued(run[r], "describeServices") = {1}


\* The reads of the service (describe_services and waiter polls) among the
\* calls of the run before position i.
ReadsBefore(rec, i) ==
    {j \in DOMAIN rec.calls :
        j < i /\ rec.calls[j].op \in {"describeServices", "waiterPoll"}}

\* C20: a run takes no account of another run: each mutating call it issues
\* follows from the one snapshot it fetched at its start (createService from
\* a snapshot that is not ACTIVE, updateService and deleteService from an
\* ACTIVE one), with no read of the service between the snapshot and the
\* call, whatever the service has become meanwhile.
C20_DecidesFromOwnSnapshot ==
    \A r \in Runs :
        \A i \in IssuedMutating(run[r]) :
            /\ Fetched(run[r])
            /\ ReadsBefore(run[r], i) \subseteq {1}
            /\ run[r].calls[i].op = "createService" => ~FetchedActive(run[r])
            /\ run[r].calls[i].op \in {"updateService", "deleteService"}
                  => FetchedActive(run[r])

\* Both runs fetched the service when it was not there, and both issued
\* createService: the first created it, the second was issued against the
\* service already ACTIVE.
C20_Witness ==
    \E r, q \in Runs :
        /\ r # q
        /\ run[r].existing = NoneSvc /\ run[q].existing = NoneSvc
        /\ \E i \in Issued(run[r], "createService") : run[r].calls[i].ok
        /\ \E i \in Issued(run[q], "createService") : ~run[q].calls[i].ok
        /\ Fetched(run[r]) /\ Fetched(run[q])
        /\ svc # NoneSvc

\* One run deletes the service from a snapshot taken before the other run
\* updated it.
C20_WitnessStaleDelete ==
    \E r, q \in Runs :
        /\ r # q
        /\ \E i \in Issued(run[r], "updateService") :
              /\ run[r].calls[i].ok
              /\ run[r].params.state = "present"
        /\ \E i \in Issued(run[q], "deleteService") : run[q].calls[i].ok
        /\ run[q].existing.taskDefinition # svc.taskDefinition

====
